---------------------------- MODULE Spec2Model ----------------------------
(* collect_lic_info: a directory scan for go.mod / package.json manifests,  *)
(* two manifest parsers accumulating name -> DepsEntry mappings, and a      *)
(* report generator enriching each dependency over the network.             *)
(*                                                                          *)
(* Strings the code inspects character by character (regex matching,        *)
(* strip_prefix, starts_with) are sequences of one-character strings.       *)
EXTENDS Integers, Sequences, FiniteSets, TLC

VARIABLES
  urlIn,        \* validate_repository_url: package_info.repository.url
  urlOut,       \* validate_repository_url: its outcome
  walkKind,     \* which scanner runs: "go" (GoParser) or "js" (JsParser)
  walkFiles,    \* the files beneath the root directory (paths below the root)
  walkExclude,  \* exclude_patterns of the parser
  walkStack,    \* WalkDir: per open directory, the entries not yet yielded
  walkFound,    \* the entries that passed the is_valid_* filter
  jsSkip,       \* JsParser: skip_patterns
  jsDeps,       \* JsParser::parse: the accumulated `dependencies` mapping
  jsFile,       \* JsParser::parse: the package.json of the current turn
  jsCount,      \* JsParser::parse: the manifests the walk has yielded so far
  jsResult,     \* JsParser::parse: "running", "Ok" or "Err"
  goFiles,      \* GoParser::parse: the go.mod files parsed so far, in order
  goDeps,       \* GoParser::parse: the accumulated `dependencies` mapping
  goResult,     \* GoParser::parse: "running", "Ok" or "Err"
  pc,           \* main: the statement about to run, "done" or "failed"
  failedAt,     \* main: the step whose error ended the run
  stepsOk,      \* main: the steps that returned Ok
  workbook,     \* ReportGenerator: the workbook (created, saved)
  webDeps,      \* main: web_deps, the mapping JsParser::parse returned
  webLeft,      \* generate_js_report: the names the loop has not reached
  sheetWeb,     \* the cells of sheet "Web": <<row, col>> -> string
  jsLast,       \* process_js_dependency: what its last call did
  jsProcessed,  \* the names process_js_dependency was called for
  goMap,        \* main: go_deps, the mapping GoParser::parse returned
  goLeft,       \* generate_go_report: the names the loop has not reached
  sheetBackend, \* the cells of sheet "Backend"
  goLast,       \* process_go_dependency: what its last call did
  goProcessed,  \* the names process_go_dependency was called for
  treeJs,       \* two runs: the package.json files of the unchanged tree
  treeGo,       \* two runs: the go.mod files of the unchanged tree
  world,        \* two runs: the unchanged answers of the registries
  runs          \* two runs: what each run of main did and wrote

--------------------------------------------------------------------------
(* Bounds of the model *)

MaxUrlLen == 3

--------------------------------------------------------------------------
(* Generic helpers *)

RECURSIVE StrsUpTo(_, _)
StrsUpTo(alphabet, n) ==
  IF n = 0 THEN { <<>> }
  ELSE LET shorter == StrsUpTo(alphabet, n - 1)
       IN  shorter \cup { Append(s, c) : s \in shorter, c \in alphabet }

Max(S) == CHOOSE x \in S : \A y \in S : y <= x

--------------------------------------------------------------------------
(* report/mod.rs: REPO_REGEX and validate_repository_url *)

LowerLetters ==
  { "a", "b", "c", "d", "e", "f", "g", "h", "i", "j", "k", "l", "m",
    "n", "o", "p", "q", "r", "s", "t", "u", "v", "w", "x", "y", "z" }

\* `.` of the regex crate: any character but a line feed
AnyChar(c) == c /= "\n"

\* the class [a-z#\.]
TailClass(c) == c \in LowerLetters \cup { "#", "." }

AllAny(s, from, to) == \A k \in from..to : AnyChar(s[k])

\* (.*)\.[a-z#\.]*$ matched on s from position `from`: the positions j of the
\* literal dot that let the rest of the pattern match
RepoDotPositions(s, from) ==
  { j \in from..Len(s) :
      /\ s[j] = "."
      /\ AllAny(s, from, j - 1)
      /\ \A k \in (j + 1)..Len(s) : TailClass(s[k]) }

\* ^.*: the positions i of the literal colon that let the rest match
RepoColonPositions(s) ==
  { i \in 1..Len(s) :
      /\ s[i] = ":"
      /\ AllAny(s, 1, i - 1)
      /\ RepoDotPositions(s, i + 1) /= {} }

NoMatch == [matched |-> FALSE, group |-> <<>>]

\* a REPO_REGEX whose first `.*` is lazy: the first colon that lets it match
REPO_REGEX_FirstColon(s) ==
  IF RepoColonPositions(s) = {} THEN NoMatch
  ELSE LET i == CHOOSE c \in RepoColonPositions(s) :
                  \A d \in RepoColonPositions(s) : c <= d
           j == Max(RepoDotPositions(s, i + 1))
       IN  [matched |-> TRUE, group |-> SubSeq(s, i + 1, j - 1)]

\* REPO_REGEX.captures(s): both `.*` are greedy, so the colon is the last one
\* that lets the pattern match and the dot the last one after it
REPO_REGEX(s) ==
  IF RepoColonPositions(s) = {} THEN NoMatch
  ELSE LET i == Max(RepoColonPositions(s))
           j == Max(RepoDotPositions(s, i + 1))
       IN  [matched |-> TRUE, group |-> SubSeq(s, i + 1, j - 1)]

HttpsScheme == << "h", "t", "t", "p", "s", ":" >>

\* format!("https:{}", &captures[1])
RepoCandidate(group) == HttpsScheme \o group

\* The outcomes of reqwest::get(&repo_url): a transport error, status OK with
\* the final url after redirects, or any other status
ResolvedUrls(cand) == { cand, cand \o << "/" >> }

ValidationResponses(cand) ==
  { [kind |-> "transport", url |-> <<>>] }
    \cup { [kind |-> "ok", url |-> u] : u \in ResolvedUrls(cand) }
    \cup { [kind |-> "status", url |-> <<>>] }

\* validate_repository_url as a function of the raw url and the response
validate_repository_url(raw, resp) ==
  LET caps == REPO_REGEX(raw)
      cand == RepoCandidate(caps.group)
  IN  IF ~caps.matched
        THEN [res |-> "InvalidRepoUrl", candidate |-> <<>>, url |-> <<>>]
      ELSE IF resp.kind = "transport"
        THEN [res |-> "TransportError", candidate |-> cand, url |-> <<>>]
      ELSE IF resp.kind = "ok"
        THEN [res |-> "Ok", candidate |-> cand, url |-> resp.url]
      ELSE [res |-> "Ok", candidate |-> cand, url |-> cand]

SshUrl ==
  << "g", "i", "t", "+", "s", "s", "h", ":", "/", "/", "g", "i", "t", "@",
     "g", "i", "t", "h", "u", "b", ".", "c", "o", "m", ":",
     "u", "s", "e", "r", "/", "r", "e", "p", "o", ".", "g", "i", "t" >>

HttpsUrl ==
  << "g", "i", "t", "+", "h", "t", "t", "p", "s", ":", "/", "/",
     "h", ".", "c", "o", "/", "r", ".", "g", "i", "t" >>

NoColonUrl == << "h", ".", "c", "o", "/", "r", ".", "g", "i", "t" >>

UrlAlphabet == { ":", ".", "a", "/", "\n" }

UrlInputs == { SshUrl, HttpsUrl, NoColonUrl } \cup StrsUpTo(UrlAlphabet, MaxUrlLen)

NotValidated == [res |-> "none", candidate |-> <<>>, url |-> <<>>]

--------------------------------------------------------------------------
(* deps/go_deps.rs, deps/js_deps.rs: the directory walk and the manifest    *)
(* filter.  A path is the sequence of entry names below the root directory. *)

GO_MOD_FILE == << "g", "o", ".", "m", "o", "d" >>

PACKAGE_JSON_FILE == << "p", "a", "c", "k", "a", "g", "e", ".", "j", "s", "o", "n" >>

\* root_path after canonicalize
RootPath == << "/", "r" >>

HiddenDir == << ".", "h" >>
PlainDir == << "s", "u", "b" >>
OtherFile == << "a", "g", "o", ".", "m", "o", "d" >>

DirPaths ==
  { << >>, << HiddenDir >>, << PlainDir >>,
    << HiddenDir, PlainDir >>, << PlainDir, HiddenDir >> }

FileNames == { GO_MOD_FILE, PACKAGE_JSON_FILE, OtherFile }

FilePaths == { Append(d, f) : d \in DirPaths, f \in FileNames }

SubsetsUpTo(S, n) == { T \in SUBSET S : Cardinality(T) <= n }

\* the directories a set of files implies: every proper prefix of a file path
DirsOf(files) ==
  UNION { { SubSeq(p, 1, k) : k \in 0..(Len(p) - 1) } : p \in files }

IsDir(files, p) == p \notin files

\* the entries read_dir lists for directory d
Children(files, d) ==
  { p \in files \cup DirsOf(files) :
      Len(p) = Len(d) + 1 /\ SubSeq(p, 1, Len(d)) = d }

\* entry.file_name(): the last component (of the root, its own name)
FileName(p) == IF p = << >> THEN << "r" >> ELSE p[Len(p)]

RECURSIVE JoinPath(_)
JoinPath(p) ==
  IF p = << >> THEN RootPath
  ELSE JoinPath(SubSeq(p, 1, Len(p) - 1)) \o << "/" >> \o p[Len(p)]

\* entry.path().to_str()
PathStr(p) == JoinPath(p)

\* s.starts_with('.')
StartsWithDot(s) == Len(s) > 0 /\ s[1] = "."

\* Regex::is_match for a pattern of literal characters: an unanchored search
is_match(pattern, s) ==
  \E i \in 1..(Len(s) - Len(pattern) + 1) :
     SubSeq(s, i, i + Len(pattern) - 1) = pattern

AnyMatch(patterns, s) == \E k \in 1..Len(patterns) : is_match(patterns[k], s)

\* is_valid_go_mod / is_valid_package_json: the two differ in the file name only
is_valid_manifest(files, exclude, manifest, p) ==
  IF IsDir(files, p) \/ StartsWithDot(FileName(p)) THEN FALSE
  ELSE IF AnyMatch(exclude, PathStr(p)) THEN FALSE
  ELSE FileName(p) = manifest

is_valid_go_mod(files, exclude, p) == is_valid_manifest(files, exclude, GO_MOD_FILE, p)

is_valid_package_json(files, exclude, p) ==
  is_valid_manifest(files, exclude, PACKAGE_JSON_FILE, p)

\* WalkDir's iterator: drop the directories that have nothing left to yield
RECURSIVE PopEmpty(_)
PopEmpty(stack) ==
  IF stack = << >> THEN stack
  ELSE IF stack[Len(stack)] = {} THEN PopEmpty(SubSeq(stack, 1, Len(stack) - 1))
  ELSE stack

\* WalkDir yields entry p of the directory on top of the stack and, when p is
\* a directory, descends into it next (depth first, follow_links)
Yield(files, stack, p) ==
  LET top  == Len(stack)
      rest == [stack EXCEPT ![top] = @ \ { p }]
  IN  PopEmpty(IF IsDir(files, p) THEN Append(rest, Children(files, p)) ELSE rest)

PatSub == << "/", "s", "u", "b", "/" >>
PatMod == << "m", "o", "d" >>
PatHid == << "h", "/" >>

ExcludeChoices == { << >>, << PatSub >>, << PatMod >>, << PatHid, PatSub >> }

MaxFiles == 2

walkVars == << walkKind, walkFiles, walkExclude, walkStack, walkFound >>

WalkInit ==
  /\ walkKind \in { "go", "js" }
  /\ walkFiles \in SubsetsUpTo(FilePaths, MaxFiles)
  /\ walkExclude \in ExcludeChoices
  /\ walkStack = << { << >> } >>
  /\ walkFound = {}

\* one turn of `for entry in go_mod_files` / `package_json_files`: the walk
\* yields its next entry and the filter keeps or drops it
WalkGoEntry ==
  /\ walkKind = "go"
  /\ walkStack /= << >>
  /\ \E p \in walkStack[Len(walkStack)] :
       /\ walkStack' = Yield(walkFiles, walkStack, p)
       /\ walkFound' = IF is_valid_go_mod(walkFiles, walkExclude, p)
                         THEN walkFound \cup { p } ELSE walkFound
  /\ UNCHANGED << walkKind, walkFiles, walkExclude >>

WalkJsEntry ==
  /\ walkKind = "js"
  /\ walkStack /= << >>
  /\ \E p \in walkStack[Len(walkStack)] :
       /\ walkStack' = Yield(walkFiles, walkStack, p)
       /\ walkFound' = IF is_valid_package_json(walkFiles, walkExclude, p)
                         THEN walkFound \cup { p } ELSE walkFound
  /\ UNCHANGED << walkKind, walkFiles, walkExclude >>

WalkIdle ==
  /\ walkKind = "none"
  /\ walkFiles = {}
  /\ walkExclude = << >>
  /\ walkStack = << >>
  /\ walkFound = {}

\* the directories above entry p
Ancestors(p) == { p[k] : k \in 1..(Len(p) - 1) }

BeneathHidden(p) == \E d \in Ancestors(p) : StartsWithDot(d)

--------------------------------------------------------------------------
(* types.rs and the accumulated mappings (HashMap<String, DepsEntry>) *)

None == [some |-> FALSE]
Some(x) == [some |-> TRUE, val |-> x]

DepsEntry(name, version) == [name |-> name, version |-> version]

EmptyMap == << >>

\* entry(name).or_insert(entry): an entry already there is kept
InsertKeepFirst(m, name, entry) ==
  [n \in DOMAIN m \cup { name } |-> IF n \in DOMAIN m THEN m[n] ELSE entry]

\* HashMap::insert: the entry of `name` is created or replaced
Insert(m, name, entry) ==
  [n \in DOMAIN m \cup { name } |-> IF n = name THEN entry ELSE m[n]]

\* the maps from a subset of `keys` to `values`
PartialMaps(keys, values) == UNION { [K -> values] : K \in SUBSET keys }

--------------------------------------------------------------------------
(* deps/js_deps.rs: parsing package.json files *)

LibName == << "l", "i", "b" >>
ScopedName == << "@", "x", "/", "l", "i", "b" >>

JsNames == { LibName, ScopedName }

Caret == << "^" >>
PlainVersion == << "1" >>
CaretVersion == << "^", "1" >>
DoubleCaretVersion == << "^", "^", "1" >>

\* the version strings a manifest may give each name
JsVersionsOf(n) ==
  IF n = LibName THEN { PlainVersion, CaretVersion, DoubleCaretVersion }
  ELSE { PlainVersion, CaretVersion }

JsBlocks ==
  { m \in PartialMaps(JsNames, { PlainVersion, CaretVersion, DoubleCaretVersion }) :
      \A n \in DOMAIN m : m[n] \in JsVersionsOf(n) }

\* PackageJson: both blocks are Option<HashMap<String, String>>
PackageJsons ==
  { [dependencies |-> d, peer_dependencies |-> q] :
      d \in { None } \cup { Some(m) : m \in JsBlocks },
      q \in { None } \cup { Some(m) : m \in JsBlocks } }

\* a package.json that cannot be opened or is not JSON of this shape
Malformed == [malformed |-> TRUE]

NoFile == [nofile |-> TRUE]

SkipScope == << "@", "x" >>
SkipLib == << "l", "i", "b" >>
SkipOther == << "z" >>

SkipChoices == { << >>, << SkipScope >>, << SkipOther, SkipLib >>, << SkipOther >> }

\* str::strip_prefix
strip_prefix(s, prefix) ==
  IF Len(s) >= Len(prefix) /\ SubSeq(s, 1, Len(prefix)) = prefix
    THEN Some(SubSeq(s, Len(prefix) + 1, Len(s)))
    ELSE None

\* all() in place of any()
should_skip_if_all_match(skip, name) ==
  \A k \in 1..Len(skip) : is_match(skip[k], name)

should_skip_dependency(skip, name) == AnyMatch(skip, name)

\* trim_start_matches('^') in place of strip_prefix("^")
RECURSIVE TrimAllCarets(_)
TrimAllCarets(version) ==
  IF Len(version) > 0 /\ version[1] = "^" THEN TrimAllCarets(Tail(version))
  ELSE version

\* `match version.strip_prefix("^") { Some(version) => version, None => version }`
StoredDependencyVersion(version) ==
  LET stripped == strip_prefix(version, Caret)
  IN  IF stripped.some THEN stripped.val ELSE version

\* one `for (name, version) in deps` loop: the names of a block are distinct,
\* so the order of the HashMap's iteration does not show in the result
InsertBlock(dependencies, skip, block, strip) ==
  LET kept == { n \in DOMAIN block : ~should_skip_dependency(skip, n) }
  IN  [n \in DOMAIN dependencies \cup kept |->
         IF n \in kept
           THEN DepsEntry(n, IF strip THEN StoredDependencyVersion(block[n])
                                       ELSE block[n])
           ELSE dependencies[n]]

\* process_dependencies: returns at once when `dependencies` is absent, and
\* after the first loop when `peerDependencies` is absent
process_dependencies(package_json, dependencies, skip) ==
  IF ~package_json.dependencies.some THEN dependencies
  ELSE LET first == InsertBlock(dependencies, skip,
                                package_json.dependencies.val, TRUE)
       IN  IF ~package_json.peer_dependencies.some THEN first
           ELSE InsertBlock(first, skip, package_json.peer_dependencies.val, FALSE)

jsVars == << jsSkip, jsDeps, jsFile, jsCount, jsResult >>

JsInit ==
  /\ jsSkip \in SkipChoices
  /\ jsDeps = EmptyMap
  /\ jsFile = NoFile
  /\ jsCount = 0
  /\ jsResult = "running"

JsIdle ==
  /\ jsSkip = << >>
  /\ jsDeps = EmptyMap
  /\ jsFile = NoFile
  /\ jsCount = 0
  /\ jsResult = "idle"

--------------------------------------------------------------------------
(* deps/go_deps.rs: parsing go.mod files *)

ModuleOne == << "m", "1" >>
ModuleTwo == << "m", "2" >>
GoModules == { ModuleOne, ModuleTwo }
GoVersions == { << "v", "1" >>, << "v", "2" >> }

GoSpecs == GoModules \X GoVersions

Require(specs) == [directive |-> "Require", specs |-> specs]
OtherDirective == [directive |-> "Module", specs |-> << >>]

\* what parse_gomod returns for a go.mod: a list of directives
GoMods ==
  { << >> }
    \cup { << OtherDirective, Require(<< a >>) >> : a \in GoSpecs }
    \cup { << Require(<< a, b >>) >> : a \in GoSpecs, b \in GoSpecs }
    \cup { << Require(<< a >>), OtherDirective, Require(<< b >>) >> :
             a \in GoSpecs, b \in { s \in GoSpecs : s[1] = ModuleOne } }

\* the inner `for spec in specs` loop
RECURSIVE InsertSpecs(_, _)
InsertSpecs(dependencies, specs) ==
  IF specs = << >> THEN dependencies
  ELSE InsertSpecs(Insert(dependencies, specs[1][1],
                          DepsEntry(specs[1][1], specs[1][2])),
                   Tail(specs))

\* extract_dependencies: only Require directives are read
RECURSIVE extract_dependencies(_, _)
extract_dependencies(go_mod, dependencies) ==
  IF go_mod = << >> THEN dependencies
  ELSE extract_dependencies(
         Tail(go_mod),
         IF go_mod[1].directive = "Require"
           THEN InsertSpecs(dependencies, go_mod[1].specs)
           ELSE dependencies)

goVars == << goFiles, goDeps, goResult >>

GoInit ==
  /\ goFiles = << >>
  /\ goDeps = EmptyMap
  /\ goResult = "running"

GoIdle ==
  /\ goFiles = << >>
  /\ goDeps = EmptyMap
  /\ goResult = "idle"

--------------------------------------------------------------------------
(* The parse loops: one action per turn of `for entry in ...` *)

\* JsParser::parse, one turn: the next package.json is read and parsed (an
\* error returns from parse), then its dependencies are merged
JsParseFile ==
  /\ jsResult = "running"
  /\ jsCount < MaxFiles
  /\ \E content \in PackageJsons \cup { Malformed } :
       /\ jsFile' = content
       /\ IF content = Malformed
            THEN jsResult' = "Err" /\ jsDeps' = jsDeps
            ELSE /\ jsResult' = "running"
                 /\ jsDeps' = process_dependencies(content, jsDeps, jsSkip)
  /\ jsCount' = jsCount + 1
  /\ UNCHANGED jsSkip

\* JsParser::parse: the walk is exhausted, Ok(dependencies)
JsParseEnd ==
  /\ jsResult = "running"
  /\ jsResult' = "Ok"
  /\ UNCHANGED << jsSkip, jsDeps, jsFile, jsCount >>

\* GoParser::parse, one turn: read_to_string and parse_gomod (an error returns
\* from parse), then extract_dependencies
GoParseFile ==
  /\ goResult = "running"
  /\ Len(goFiles) < MaxFiles
  /\ \/ /\ goResult' = "Err"
        /\ UNCHANGED << goFiles, goDeps >>
     \/ \E content \in GoMods :
          /\ goFiles' = Append(goFiles, content)
          /\ goDeps' = extract_dependencies(content, goDeps)
          /\ goResult' = "running"

\* GoParser::parse: the walk is exhausted, Ok(dependencies)
GoParseEnd ==
  /\ goResult = "running"
  /\ goResult' = "Ok"
  /\ UNCHANGED << goFiles, goDeps >>

--------------------------------------------------------------------------
(* report/mod.rs: the report generator.  A sheet is the function from the   *)
(* cells written so far, <<row, col>>, to their strings.                    *)

\* report/constants.rs
HEADERS ==
  << << "Name" >>, << "Version" >>, << "Homepage/Doc-link" >>, << "License" >>,
     << "License-link" >> >>

\* report/constants.rs
LICENSE_FILES == << << "LICENSE" >>, << "LICENSE.md" >>, << "LICENSE.txt" >> >>

EmptySheet == << >>

\* Worksheet::write_string
write_string(sheet, row, col, text) == Insert(sheet, << row, col >>, text)

\* write_headers
RECURSIVE WriteHeadersFrom(_, _)
WriteHeadersFrom(sheet, col) ==
  IF col >= Len(HEADERS) THEN sheet
  ELSE WriteHeadersFrom(write_string(sheet, 0, col, HEADERS[col + 1]), col + 1)

write_headers(sheet) == WriteHeadersFrom(sheet, 0)

\* the columns of `row` that hold a cell
RowCells(sheet, row) == { c \in DOMAIN sheet : c[1] = row }

\* PackageInfo as the registry returns it for a dependency
PackageInfos(dep) ==
  { [name |-> dep.name, version |-> dep.version, license |-> << "MIT" >>,
     homepage |-> << "home" >>, repository_url |-> u] :
       u \in { HttpsUrl, NoColonUrl } }

\* fetch_npm_package_info: the request or the JSON decoding fails, or a
\* PackageInfo comes back
RegistryResponses(dep) ==
  { [kind |-> "fail"] } \cup { [kind |-> "ok", info |-> i] : i \in PackageInfos(dep) }

ProbeOutcomes == { "ok", "miss", "transport" }

ProbeResponses == [1..Len(LICENSE_FILES) -> ProbeOutcomes]

\* format!("{}/blob/master/{}", repo_url, license_file)
LicenseUrl(repo_url, license_file) == repo_url \o << "/blob/master/" >> \o license_file

\* the loop without its `break`
RECURSIVE FindLicenseNoBreak(_, _, _, _, _, _)
FindLicenseNoBreak(sheet, row, repo_url, probes, i, probed) ==
  IF i > Len(LICENSE_FILES)
    THEN [sheet |-> sheet, res |-> "Ok", probed |-> probed]
  ELSE IF probes[i] = "transport"
    THEN [sheet |-> sheet, res |-> "Err", probed |-> Append(probed, probes[i])]
  ELSE FindLicenseNoBreak(
         IF probes[i] = "ok"
           THEN write_string(sheet, row, 4, LicenseUrl(repo_url, LICENSE_FILES[i]))
           ELSE sheet,
         row, repo_url, probes, i + 1, Append(probed, probes[i]))

\* find_and_write_license_url, from file i on; `probed` lists the answers of
\* the requests made so far
RECURSIVE FindLicenseFrom(_, _, _, _, _, _)
FindLicenseFrom(sheet, row, repo_url, probes, i, probed) ==
  IF i > Len(LICENSE_FILES)
    THEN [sheet |-> sheet, res |-> "Ok", probed |-> probed]
  ELSE IF probes[i] = "transport"
    THEN [sheet |-> sheet, res |-> "Err", probed |-> Append(probed, probes[i])]
  ELSE IF probes[i] = "ok"
    THEN [sheet |-> write_string(sheet, row, 4, LicenseUrl(repo_url, LICENSE_FILES[i])),
          res |-> "Ok", probed |-> Append(probed, probes[i])]
  ELSE FindLicenseFrom(sheet, row, repo_url, probes, i + 1, Append(probed, probes[i]))

find_and_write_license_url(sheet, row, repo_url, probes) ==
  FindLicenseFrom(sheet, row, repo_url, probes, 1, << >>)

write_js_dependency_info(sheet, row, info) ==
  LET s0 == write_string(sheet, row, 0, info.name)
      s1 == write_string(s0, row, 1, info.version)
      s2 == write_string(s1, row, 2, info.homepage)
  IN  write_string(s2, row, 3, info.license)

\* what one call of process_js_dependency did: its result, the call it
\* reached (registry, validate, license), the repository url and the answers
\* of the license probes it made
JsOutcome(dep, row, sheet, res, err, reached, registry, repo, probed) ==
  [some |-> TRUE, dep |-> dep, row |-> row, sheet |-> sheet, res |-> res,
   err |-> err, reached |-> reached, registry |-> registry, repo |-> repo,
   probed |-> probed]

\* the registry error returned with `?` instead of being printed
PropagatePackageError(dep, row, sheet) ==
  JsOutcome(dep, row, sheet, "Err", "PackageFetchError", "registry", "fail", << >>, << >>)

\* process_js_dependency when fetch_npm_package_info returned Err: the error
\* is printed and the dependency skipped
SkipPackage(dep, row, sheet) ==
  JsOutcome(dep, row, sheet, "Ok", "", "registry", "fail", << >>, << >>)

\* process_js_dependency
process_js_dependency(sheet, row, dep, registry, vresp, probes) ==
  IF registry.kind = "fail" THEN SkipPackage(dep, row, sheet)
  ELSE LET v == validate_repository_url(registry.info.repository_url, vresp)
       IN  IF v.res /= "Ok"
             THEN JsOutcome(dep, row, sheet, "Err", v.res, "validate", "ok", << >>, << >>)
           ELSE LET written == write_js_dependency_info(sheet, row, registry.info)
                    found   == find_and_write_license_url(written, row, v.url, probes)
                IN  JsOutcome(dep, row, found.sheet, found.res,
                              IF found.res = "Ok" THEN "" ELSE "TransportError",
                              "license", "ok", v.url, found.probed)

write_go_dependency_info(sheet, row, dep) ==
  LET s0 == write_string(sheet, row, 0, dep.name)
      s1 == write_string(s0, row, 1, dep.version)
  IN  write_string(s1, row, 2, << "https://pkg.go.dev/" >> \o dep.name)

\* format!("https://pkg.go.dev/{}?tab=licenses", dep.name)
GoLicenseUrl(dep) == << "https://pkg.go.dev/" >> \o dep.name \o << "?tab=licenses" >>

\* reqwest::get(&lic_url) and resp.text(): a transport error on either, a
\* status other than OK, or a body LICENSE_REGEX matches (with the text of its
\* group) or does not match
GoLicenseResponses ==
  { [kind |-> "transport"], [kind |-> "status"], [kind |-> "body_error"],
    [kind |-> "no_match"], [kind |-> "match", license |-> << "BSD" >>] }

fetch_and_write_go_license(sheet, row, dep, resp) ==
  IF resp.kind \in { "transport", "body_error" }
    THEN [sheet |-> sheet, res |-> "Err"]
  ELSE IF resp.kind = "match"
    THEN [sheet |-> write_string(write_string(sheet, row, 3, resp.license),
                                 row, 4, GoLicenseUrl(dep)),
          res |-> "Ok"]
  ELSE [sheet |-> sheet, res |-> "Ok"]

\* process_go_dependency
process_go_dependency(sheet, row, dep, resp) ==
  LET out == fetch_and_write_go_license(write_go_dependency_info(sheet, row, dep),
                                        row, dep, resp)
  IN  [some |-> TRUE, dep |-> dep, row |-> row, sheet |-> out.sheet,
       res |-> out.res, fetch |-> resp.kind]

--------------------------------------------------------------------------
(* main.rs: the run, one action per statement of main and per turn of the   *)
(* report loops                                                             *)

\* the result dropped instead of returned with `?`
QuestionDropped(res, next) == next

\* the `?` of main: an Err returns from main, Ok goes on
Question(res, next) == IF res = "Ok" THEN next ELSE "failed"

\* the steps of main before report_generator.save()
StepsBeforeSave ==
  { "new", "js_new", "js_parse", "js_report", "go_new", "go_parse", "go_report" }

\* the mappings JsParser::parse and GoParser::parse may return
WebMappings ==
  { [n \in K |-> DepsEntry(n, PlainVersion)] : K \in SUBSET JsNames }

GoMappings ==
  { [n \in K |-> DepsEntry(n, << "v", "1" >>)] : K \in SUBSET GoModules }

NoCall == [some |-> FALSE]

mainVars ==
  << pc, failedAt, stepsOk, workbook, webDeps, webLeft, sheetWeb, jsLast,
     jsProcessed, goMap, goLeft, sheetBackend, goLast, goProcessed >>

MainInit ==
  /\ pc = "new"
  /\ failedAt = ""
  /\ stepsOk = {}
  /\ workbook = [created |-> FALSE, saved |-> FALSE, sheets |-> {}]
  /\ webDeps = EmptyMap
  /\ webLeft = {}
  /\ sheetWeb = EmptySheet
  /\ jsLast = NoCall
  /\ jsProcessed = {}
  /\ goMap = EmptyMap
  /\ goLeft = {}
  /\ sheetBackend = EmptySheet
  /\ goLast = NoCall
  /\ goProcessed = {}

MainIdle ==
  /\ pc = "idle"
  /\ failedAt = ""
  /\ stepsOk = {}
  /\ workbook = [created |-> FALSE, saved |-> FALSE, sheets |-> {}]
  /\ webDeps = EmptyMap
  /\ webLeft = {}
  /\ sheetWeb = EmptySheet
  /\ jsLast = NoCall
  /\ jsProcessed = {}
  /\ goMap = EmptyMap
  /\ goLeft = {}
  /\ sheetBackend = EmptySheet
  /\ goLast = NoCall
  /\ goProcessed = {}

\* a statement of main returned `res`
Step(step, res, next) ==
  /\ pc' = Question(res, next)
  /\ stepsOk' = IF res = "Ok" THEN stepsOk \cup { step } ELSE stepsOk
  /\ failedAt' = IF res = "Ok" THEN failedAt ELSE step

Results == { "Ok", "Err" }

\* ReportGenerator::new("deps_report.xlsx")
NewReportGenerator ==
  /\ pc = "new"
  /\ \E res \in Results :
       /\ Step("new", res, "js_new")
       /\ workbook' = [workbook EXCEPT !.created = (res = "Ok")]
  /\ UNCHANGED << webDeps, webLeft, sheetWeb, jsLast, jsProcessed,
                  goMap, goLeft, sheetBackend, goLast, goProcessed >>

\* JsParser::new: canonicalize, then compile_patterns of exclude and of skip
JsParserNew ==
  /\ pc = "js_new"
  /\ \E dirOk \in BOOLEAN, excludeOk \in BOOLEAN, skipOk \in BOOLEAN :
       Step("js_new", IF dirOk /\ excludeOk /\ skipOk THEN "Ok" ELSE "Err", "js_parse")
  /\ UNCHANGED << workbook, webDeps, webLeft, sheetWeb, jsLast, jsProcessed,
                  goMap, goLeft, sheetBackend, goLast, goProcessed >>

\* js_parser.parse()
JsParse ==
  /\ pc = "js_parse"
  /\ \/ /\ Step("js_parse", "Err", "js_sheet")
        /\ UNCHANGED webDeps
     \/ \E m \in WebMappings :
          /\ Step("js_parse", "Ok", "js_sheet")
          /\ webDeps' = m
  /\ UNCHANGED << workbook, webLeft, sheetWeb, jsLast, jsProcessed,
                  goMap, goLeft, sheetBackend, goLast, goProcessed >>

\* generate_js_report: create_worksheet and write_headers
JsReportSheet ==
  /\ pc = "js_sheet"
  /\ \/ /\ Step("js_report", "Err", "js_rows")
        /\ UNCHANGED << workbook, sheetWeb, webLeft >>
     \/ /\ pc' = "js_rows"
        /\ workbook' = [workbook EXCEPT !.sheets = @ \cup { "Web" }]
        /\ sheetWeb' = write_headers(EmptySheet)
        /\ webLeft' = DOMAIN webDeps
        /\ UNCHANGED << stepsOk, failedAt >>
  /\ UNCHANGED << webDeps, jsLast, jsProcessed,
                  goMap, goLeft, sheetBackend, goLast, goProcessed >>

\* generate_js_report, one turn of the loop: the HashMap hands out any entry
\* it has not handed out; the row is the turn's index plus one
JsReportRow ==
  /\ pc = "js_rows"
  /\ \E n \in webLeft :
       LET dep == webDeps[n]
           row == Cardinality(DOMAIN webDeps \ webLeft) + 1
       IN  \E registry \in RegistryResponses(dep), probes \in ProbeResponses :
           \E vresp \in ValidationResponses(
                          IF registry.kind = "ok"
                            THEN RepoCandidate(REPO_REGEX(registry.info.repository_url).group)
                            ELSE << >>) :
             LET out == process_js_dependency(sheetWeb, row, dep, registry, vresp, probes)
             IN  /\ jsLast' = [out EXCEPT !.sheet = << >>]
                 /\ sheetWeb' = out.sheet
                 /\ jsProcessed' = jsProcessed \cup { n }
                 /\ webLeft' = webLeft \ { n }
                 /\ IF out.res = "Ok"
                      THEN UNCHANGED << pc, stepsOk, failedAt >>
                      ELSE /\ pc' = "failed"
                           /\ failedAt' = "js_dep"
                           /\ UNCHANGED stepsOk
  /\ UNCHANGED << workbook, webDeps, goMap, goLeft, sheetBackend, goLast, goProcessed >>

\* generate_js_report: the loop is over, Ok(())
JsReportEnd ==
  /\ pc = "js_rows"
  /\ webLeft = {}
  /\ Step("js_report", "Ok", "go_new")
  /\ UNCHANGED << workbook, webDeps, webLeft, sheetWeb, jsLast, jsProcessed,
                  goMap, goLeft, sheetBackend, goLast, goProcessed >>

\* GoParser::new: canonicalize, then compile_patterns of exclude
GoParserNew ==
  /\ pc = "go_new"
  /\ \E dirOk \in BOOLEAN, excludeOk \in BOOLEAN :
       Step("go_new", IF dirOk /\ excludeOk THEN "Ok" ELSE "Err", "go_parse")
  /\ UNCHANGED << workbook, webDeps, webLeft, sheetWeb, jsLast, jsProcessed,
                  goMap, goLeft, sheetBackend, goLast, goProcessed >>

\* go_parser.parse()
GoParse ==
  /\ pc = "go_parse"
  /\ \/ /\ Step("go_parse", "Err", "go_sheet")
        /\ UNCHANGED goMap
     \/ \E m \in GoMappings :
          /\ Step("go_parse", "Ok", "go_sheet")
          /\ goMap' = m
  /\ UNCHANGED << workbook, webDeps, webLeft, sheetWeb, jsLast, jsProcessed,
                  goLeft, sheetBackend, goLast, goProcessed >>

\* generate_go_report: create_worksheet and write_headers
GoReportSheet ==
  /\ pc = "go_sheet"
  /\ \/ /\ Step("go_report", "Err", "go_rows")
        /\ UNCHANGED << workbook, sheetBackend, goLeft >>
     \/ /\ pc' = "go_rows"
        /\ workbook' = [workbook EXCEPT !.sheets = @ \cup { "Backend" }]
        /\ sheetBackend' = write_headers(EmptySheet)
        /\ goLeft' = DOMAIN goMap
        /\ UNCHANGED << stepsOk, failedAt >>
  /\ UNCHANGED << webDeps, webLeft, sheetWeb, jsLast, jsProcessed,
                  goMap, goLast, goProcessed >>

\* generate_go_report, one turn of the loop
GoReportRow ==
  /\ pc = "go_rows"
  /\ \E n \in goLeft, resp \in GoLicenseResponses :
       LET row == Cardinality(DOMAIN goMap \ goLeft) + 1
           out == process_go_dependency(sheetBackend, row, goMap[n], resp)
       IN  /\ goLast' = [out EXCEPT !.sheet = << >>]
           /\ sheetBackend' = out.sheet
           /\ goProcessed' = goProcessed \cup { n }
           /\ goLeft' = goLeft \ { n }
           /\ IF out.res = "Ok"
                THEN UNCHANGED << pc, stepsOk, failedAt >>
                ELSE /\ pc' = "failed"
                     /\ failedAt' = "go_dep"
                     /\ UNCHANGED stepsOk
  /\ UNCHANGED << workbook, webDeps, webLeft, sheetWeb, jsLast, jsProcessed, goMap >>

\* generate_go_report: the loop is over, Ok(())
GoReportEnd ==
  /\ pc = "go_rows"
  /\ goLeft = {}
  /\ Step("go_report", "Ok", "save")
  /\ UNCHANGED << workbook, webDeps, webLeft, sheetWeb, jsLast, jsProcessed,
                  goMap, goLeft, sheetBackend, goLast, goProcessed >>

\* report_generator.save(): Workbook::close
Save ==
  /\ pc = "save"
  /\ \E res \in Results :
       /\ Step("save", res, "done")
       /\ workbook' = [workbook EXCEPT !.saved = (res = "Ok")]
  /\ UNCHANGED << webDeps, webLeft, sheetWeb, jsLast, jsProcessed,
                  goMap, goLeft, sheetBackend, goLast, goProcessed >>

--------------------------------------------------------------------------
(* Two runs of main over the same tree and the same external answers.  A    *)
(* run is the composition of the operators above: the manifests in the      *)
(* order the walk yields them, the rows in the order the HashMap hands out  *)
(* its entries.                                                             *)

\* the orders in which the elements of S can be enumerated
Orders(S) ==
  { q \in [1..Cardinality(S) -> S] : \A i, j \in 1..Cardinality(S) : q[i] = q[j] => i = j }

\* JsParser::parse over the manifests in walk order
RECURSIVE JsParseAll(_, _, _)
JsParseAll(files, dependencies, skip) ==
  IF files = << >> THEN dependencies
  ELSE JsParseAll(Tail(files), process_dependencies(files[1], dependencies, skip), skip)

\* GoParser::parse over the manifests in walk order
RECURSIVE GoParseAll(_, _)
GoParseAll(files, dependencies) ==
  IF files = << >> THEN dependencies
  ELSE GoParseAll(Tail(files), extract_dependencies(files[1], dependencies))

\* generate_js_report's loop from turn i on: an Err of a row returns
RECURSIVE JsReportFrom(_, _, _, _, _)
JsReportFrom(sheet, deps, iter, i, answers) ==
  IF i > Len(iter) THEN [sheet |-> sheet, res |-> "Ok"]
  ELSE LET a   == answers[deps[iter[i]]]
           out == process_js_dependency(sheet, i, deps[iter[i]],
                                        a.registry, a.vresp, a.probes)
       IN  IF out.res = "Ok" THEN JsReportFrom(out.sheet, deps, iter, i + 1, answers)
           ELSE [sheet |-> out.sheet, res |-> "Err"]

\* a loop that stops at the first Err without returning it
RECURSIVE GoReportStopsQuietly(_, _, _, _, _)
GoReportStopsQuietly(sheet, deps, iter, i, answers) ==
  IF i > Len(iter) THEN [sheet |-> sheet, res |-> "Ok"]
  ELSE LET out == process_go_dependency(sheet, i, deps[iter[i]], answers[deps[iter[i]]])
       IN  IF out.res = "Ok"
             THEN GoReportStopsQuietly(out.sheet, deps, iter, i + 1, answers)
           ELSE [sheet |-> out.sheet, res |-> "Ok"]

\* generate_go_report's loop from turn i on: an Err of a row returns
RECURSIVE GoReportFrom(_, _, _, _, _)
GoReportFrom(sheet, deps, iter, i, answers) ==
  IF i > Len(iter) THEN [sheet |-> sheet, res |-> "Ok"]
  ELSE LET out == process_go_dependency(sheet, i, deps[iter[i]], answers[deps[iter[i]]])
       IN  IF out.res = "Ok" THEN GoReportFrom(out.sheet, deps, iter, i + 1, answers)
           ELSE [sheet |-> out.sheet, res |-> "Err"]

\* the contents of the data rows of a sheet, without their row numbers
Rows(sheet) ==
  { [col \in { c[2] : c \in RowCells(sheet, r) } |-> sheet[<< r, col >>]] :
      r \in { c[1] : c \in DOMAIN sheet } \ { 0 } }

\* main from JsParser::parse to save, given the two walk orders and the two
\* iteration orders; every step before the reports succeeds here
RunMain(jsOrder, jsIter, goOrder, goIter, w) ==
  LET web  == JsParseAll(jsOrder, EmptyMap, << >>)
      jsr  == JsReportFrom(write_headers(EmptySheet), web, jsIter, 1, w.js)
      go   == GoParseAll(goOrder, EmptyMap)
      gor  == GoReportFrom(write_headers(EmptySheet), go, goIter, 1, w.go)
  IN  IF jsr.res /= "Ok"
        THEN [done |-> TRUE, jsOrder |-> jsOrder, goOrder |-> goOrder,
              res |-> "Err", web |-> Rows(jsr.sheet), backend |-> {}]
      ELSE [done |-> TRUE, jsOrder |-> jsOrder, goOrder |-> goOrder,
            res |-> gor.res, web |-> Rows(jsr.sheet), backend |-> Rows(gor.sheet)]

NotRun ==
  [done |-> FALSE, jsOrder |-> << >>, goOrder |-> << >>, res |-> "", web |-> {},
   backend |-> {}]

\* the manifests a tree may hold
TreePackageJsons ==
  { [dependencies |-> Some(LibName :> PlainVersion), peer_dependencies |-> None],
    [dependencies |-> Some(LibName :> DoubleCaretVersion @@ ScopedName :> PlainVersion),
     peer_dependencies |-> None] }

TreeGoMods ==
  { << Require(<< << ModuleOne, << "v", "1" >> >>, << ModuleTwo, << "v", "1" >> >> >>) >>,
    << Require(<< << ModuleOne, << "v", "2" >> >> >>) >> }

\* the dependencies those manifests can lead to
TreeJsDeps ==
  { DepsEntry(LibName, PlainVersion), DepsEntry(LibName, CaretVersion),
    DepsEntry(ScopedName, PlainVersion) }

TreeGoDeps ==
  { DepsEntry(ModuleOne, << "v", "1" >>), DepsEntry(ModuleOne, << "v", "2" >>),
    DepsEntry(ModuleTwo, << "v", "1" >>) }

\* the answers the registry side gives for one package: the lookup fails, or
\* it returns a PackageInfo whose repository url has or lacks the shape
JsAnswers(dep) ==
  { [registry |-> [kind |-> "fail"], vresp |-> [kind |-> "status", url |-> << >>],
     probes |-> [i \in 1..Len(LICENSE_FILES) |-> "miss"]] }
  \cup
  { [registry |-> [kind |-> "ok", info |-> info],
     vresp |-> [kind |-> "status", url |-> << >>],
     probes |-> [i \in 1..Len(LICENSE_FILES) |-> IF i = 2 THEN "ok" ELSE "miss"]] :
       info \in PackageInfos(dep) }

GoAnswers == { [kind |-> "transport"], [kind |-> "match", license |-> << "BSD" >>] }

Worlds ==
  { [js |-> j, go |-> g] :
      j \in { f \in [TreeJsDeps -> UNION { JsAnswers(d) : d \in TreeJsDeps }] :
                \A d \in TreeJsDeps : f[d] \in JsAnswers(d) },
      g \in [TreeGoDeps -> GoAnswers] }

idemVars == << treeJs, treeGo, world, runs >>

IdemInit ==
  /\ treeJs \in SUBSET TreePackageJsons
  /\ treeGo \in SUBSET TreeGoMods
  /\ world \in Worlds
  /\ runs = [r \in { 1, 2 } |-> NotRun]

IdemIdle ==
  /\ treeJs = {}
  /\ treeGo = {}
  /\ world = << >>
  /\ runs = << >>

\* one run of main over the tree
Run(r) ==
  /\ ~runs[r].done
  /\ \E jsOrder \in Orders(treeJs), goOrder \in Orders(treeGo) :
     \E jsIter \in Orders(DOMAIN JsParseAll(jsOrder, EmptyMap, << >>)),
        goIter \in Orders(DOMAIN GoParseAll(goOrder, EmptyMap)) :
       runs' = [runs EXCEPT ![r] = RunMain(jsOrder, jsIter, goOrder, goIter, world)]
  /\ UNCHANGED << treeJs, treeGo, world >>

FirstRun == Run(1)

SecondRun == runs[1].done /\ Run(2)

--------------------------------------------------------------------------
(* Specifications *)

urlVars == << urlIn, urlOut >>

UrlInit ==
  /\ urlIn \in UrlInputs
  /\ urlOut = NotValidated

UrlIdle ==
  /\ urlIn = << >>
  /\ urlOut = NotValidated

ValidateRepositoryUrl ==
  /\ urlOut.res = "none"
  /\ \E resp \in ValidationResponses(RepoCandidate(REPO_REGEX(urlIn).group)) :
       urlOut' = validate_repository_url(urlIn, resp)
  /\ UNCHANGED urlIn

vars == << urlVars, walkVars, jsVars, goVars, mainVars, idemVars >>

UrlNext == ValidateRepositoryUrl /\ UNCHANGED << walkVars, jsVars, goVars, mainVars, idemVars >>

InitUrl == UrlInit /\ WalkIdle /\ JsIdle /\ GoIdle /\ MainIdle /\ IdemIdle

SpecUrl == InitUrl /\ [][UrlNext]_vars

WalkNext ==
  \/ WalkGoEntry /\ UNCHANGED << urlVars, jsVars, goVars, mainVars, idemVars >>
  \/ WalkJsEntry /\ UNCHANGED << urlVars, jsVars, goVars, mainVars, idemVars >>

InitWalk == WalkInit /\ UrlIdle /\ JsIdle /\ GoIdle /\ MainIdle /\ IdemIdle

SpecWalk == InitWalk /\ [][WalkNext]_vars

JsNext ==
  \/ JsParseFile /\ UNCHANGED << urlVars, walkVars, goVars, mainVars, idemVars >>
  \/ JsParseEnd /\ UNCHANGED << urlVars, walkVars, goVars, mainVars, idemVars >>

InitJs == JsInit /\ UrlIdle /\ WalkIdle /\ GoIdle /\ MainIdle /\ IdemIdle

SpecJs == InitJs /\ [][JsNext]_vars

GoNext ==
  \/ GoParseFile /\ UNCHANGED << urlVars, walkVars, jsVars, mainVars, idemVars >>
  \/ GoParseEnd /\ UNCHANGED << urlVars, walkVars, jsVars, mainVars, idemVars >>

InitGo == GoInit /\ UrlIdle /\ WalkIdle /\ JsIdle /\ MainIdle /\ IdemIdle

SpecGo == InitGo /\ [][GoNext]_vars

MainNext ==
  \/ NewReportGenerator /\ UNCHANGED << urlVars, walkVars, jsVars, goVars, idemVars >>
  \/ JsParserNew /\ UNCHANGED << urlVars, walkVars, jsVars, goVars, idemVars >>
  \/ JsParse /\ UNCHANGED << urlVars, walkVars, jsVars, goVars, idemVars >>
  \/ JsReportSheet /\ UNCHANGED << urlVars, walkVars, jsVars, goVars, idemVars >>
  \/ JsReportRow /\ UNCHANGED << urlVars, walkVars, jsVars, goVars, idemVars >>
  \/ JsReportEnd /\ UNCHANGED << urlVars, walkVars, jsVars, goVars, idemVars >>
  \/ GoParserNew /\ UNCHANGED << urlVars, walkVars, jsVars, goVars, idemVars >>
  \/ GoParse /\ UNCHANGED << urlVars, walkVars, jsVars, goVars, idemVars >>
  \/ GoReportSheet /\ UNCHANGED << urlVars, walkVars, jsVars, goVars, idemVars >>
  \/ GoReportRow /\ UNCHANGED << urlVars, walkVars, jsVars, goVars, idemVars >>
  \/ GoReportEnd /\ UNCHANGED << urlVars, walkVars, jsVars, goVars, idemVars >>
  \/ Save /\ UNCHANGED << urlVars, walkVars, jsVars, goVars, idemVars >>

InitMain == MainInit /\ UrlIdle /\ WalkIdle /\ JsIdle /\ GoIdle /\ IdemIdle

SpecMain == InitMain /\ [][MainNext]_vars

IdemNext ==
  \/ FirstRun /\ UNCHANGED << urlVars, walkVars, jsVars, goVars, mainVars >>
  \/ SecondRun /\ UNCHANGED << urlVars, walkVars, jsVars, goVars, mainVars >>

InitIdem == IdemInit /\ UrlIdle /\ WalkIdle /\ JsIdle /\ GoIdle /\ MainIdle

SpecIdem == InitIdem /\ [][IdemNext]_vars

--------------------------------------------------------------------------
(* Claims *)

(* C1: a failure while enriching one dependency never aborts enrichment of  *)
(* the others.  Stated for the case the claim names, a failed license-page  *)
(* fetch of a Go module: when generate_go_report has stopped on a           *)
(* dependency, every dependency of the mapping has still been processed.    *)
C1_GoFailureIsolated ==
  (pc = "failed" /\ failedAt = "go_dep") => goProcessed = DOMAIN goMap

(* C2: when the registry lookup of a dependency fails, no cell is written   *)
(* in its row, process_js_dependency returns Ok, and the loop goes on with  *)
(* the next dependency.                                                     *)
C2_FailedLookupSkipsRow ==
  (jsLast.some /\ jsLast.registry = "fail") =>
     /\ RowCells(sheetWeb, jsLast.row) = {}
     /\ jsLast.res = "Ok"
     /\ ~(pc = "failed" /\ failedAt = "js_dep")
     /\ (webLeft /= {} => pc = "js_rows")

C2_Witness ==
  /\ jsLast.some /\ jsLast.registry = "fail" /\ jsLast.row = 1
  /\ RowCells(sheetWeb, 1) = {}
  /\ webLeft /= {}
  /\ pc = "js_rows"

(* C3, as claimed: on a run a fatal error ends, the workbook is neither     *)
(* created nor saved.                                                       *)
C3_NeitherCreatedNorSaved ==
  pc = "failed" => (~workbook.created /\ ~workbook.saved)

(* C3, amended: a run a fatal error ends never saves the workbook, and      *)
(* save is reached only when every earlier step of main returned Ok; the    *)
(* workbook itself is created first, before any other step can fail.        *)
C3_SavedOnlyAfterEveryStep ==
  /\ pc = "failed" => ~workbook.saved
  /\ workbook.saved => pc = "done"
  /\ pc \in { "save", "done" } => StepsBeforeSave \subseteq stepsOk
  /\ (pc = "failed" /\ failedAt /= "new") => workbook.created
  /\ (pc = "failed" /\ failedAt = "new") => ~workbook.created

C3_Witness ==
  /\ pc = "failed" /\ failedAt = "js_dep"
  /\ workbook.created /\ ~workbook.saved
  /\ sheetWeb /= EmptySheet

(* C4: no manifest located beneath a hidden directory is discovered by      *)
(* either scanner, whatever the exclusion patterns.                         *)
C4_NoManifestBeneathHidden == \A p \in walkFound : ~BeneathHidden(p)

HttpsUserRepo ==
  << "h", "t", "t", "p", "s", ":", "/", "/", "u", "s", "e", "r", "/", "r", "e", "p", "o" >>

HttpsColonUserRepo ==
  << "h", "t", "t", "p", "s", ":", "u", "s", "e", "r", "/", "r", "e", "p", "o" >>

(* C5, as claimed: for git+ssh://git@github.com:user/repo.git the candidate *)
(* url is https://user/repo.                                                *)
C5_CandidateHasSlashes ==
  (urlIn = SshUrl /\ urlOut.res /= "none") => urlOut.candidate = HttpsUserRepo

(* C5, amended: for git+ssh://git@github.com:user/repo.git the candidate    *)
(* url is https:user/repo, the group after the last colon with "https:" put *)
(* before it.                                                               *)
C5_CandidateIsSchemeAndGroup ==
  (urlIn = SshUrl /\ urlOut.res /= "none") => urlOut.candidate = HttpsColonUserRepo

C5_Witness ==
  /\ urlIn = SshUrl
  /\ urlOut.res = "Ok"
  /\ urlOut.candidate = HttpsColonUserRepo

NameMatchesSkip(n) == \E k \in 1..Len(jsSkip) : is_match(jsSkip[k], n)

IsPackageJson(file) == "dependencies" \in DOMAIN file

(* C6: the accumulated mapping never holds a name that matches a skip       *)
(* pattern, whether the name comes from dependencies or peerDependencies.   *)
C6_NoSkippedNameStored == \A n \in DOMAIN jsDeps : ~NameMatchesSkip(n)

C6_Witness ==
  /\ IsPackageJson(jsFile)
  /\ jsFile.dependencies.some /\ jsFile.peer_dependencies.some
  /\ \E n \in DOMAIN jsFile.dependencies.val : NameMatchesSkip(n)
  /\ \E n \in DOMAIN jsFile.peer_dependencies.val :
        NameMatchesSkip(n) /\ n \notin DOMAIN jsDeps
  /\ jsDeps /= EmptyMap

\* a version with its leading caret, when it has one, taken off
WithoutLeadingCaret(v) == IF v /= << >> /\ Head(v) = "^" THEN Tail(v) ELSE v

\* the blocks of the manifest of this turn that were read, as maps
DepsRead(file) ==
  IF IsPackageJson(file) /\ file.dependencies.some
    THEN file.dependencies.val ELSE EmptyMap

PeersRead(file) ==
  IF IsPackageJson(file) /\ file.dependencies.some /\ file.peer_dependencies.some
    THEN file.peer_dependencies.val ELSE EmptyMap

(* C7, as claimed: every version of a package manifest is stored with its   *)
(* leading caret stripped, and unchanged when it has none.                  *)
C7_EveryCaretStripped ==
  \A n \in DOMAIN jsDeps :
     /\ n \in DOMAIN PeersRead(jsFile) =>
          jsDeps[n].version = WithoutLeadingCaret(PeersRead(jsFile)[n])
     /\ n \in DOMAIN DepsRead(jsFile) \ DOMAIN PeersRead(jsFile) =>
          jsDeps[n].version = WithoutLeadingCaret(DepsRead(jsFile)[n])

(* C7, amended: a version of the dependencies block is stored with one      *)
(* leading caret stripped, and unchanged when it has none; a version of the *)
(* peerDependencies block is stored as written, caret included, and         *)
(* replaces the entry of the same name from the dependencies block.         *)
C7_DependenciesCaretStripped ==
  \A n \in DOMAIN jsDeps :
     /\ n \in DOMAIN PeersRead(jsFile) =>
          jsDeps[n].version = PeersRead(jsFile)[n]
     /\ n \in DOMAIN DepsRead(jsFile) \ DOMAIN PeersRead(jsFile) =>
          jsDeps[n].version = WithoutLeadingCaret(DepsRead(jsFile)[n])

C7_Witness ==
  /\ ScopedName \in DOMAIN DepsRead(jsFile) \ DOMAIN PeersRead(jsFile)
  /\ DepsRead(jsFile)[ScopedName] = CaretVersion
  /\ LibName \in DOMAIN PeersRead(jsFile)
  /\ PeersRead(jsFile)[LibName] = CaretVersion
  /\ DOMAIN jsDeps = JsNames
  /\ jsDeps[ScopedName].version = PlainVersion
  /\ jsDeps[LibName].version = CaretVersion

BothRan == runs[1].done /\ runs[2].done

SameContent ==
  runs[1].web = runs[2].web /\ runs[1].backend = runs[2].backend

(* C8, as claimed: two runs over the unchanged tree with unchanged answers  *)
(* that both produce the report give the same set of row contents in both   *)
(* sheets, whatever walk order and iteration order each run takes.          *)
C8_SameRowsWhateverOrder ==
  (BothRan /\ runs[1].res = "Ok" /\ runs[2].res = "Ok") => SameContent

(* C8, amended: two runs over the unchanged tree with unchanged answers     *)
(* that visit the manifests in the same order end alike, both with a fatal  *)
(* error or both with a report, and the reports hold the same set of row    *)
(* contents in both sheets, whatever iteration order each mapping takes.    *)
C8_SameRowsForSameWalk ==
  (BothRan /\ runs[1].jsOrder = runs[2].jsOrder /\ runs[1].goOrder = runs[2].goOrder) =>
     /\ runs[1].res = runs[2].res
     /\ runs[1].res = "Ok" => SameContent

C8_Witness ==
  /\ BothRan
  /\ runs[1].jsOrder = runs[2].jsOrder /\ runs[1].goOrder = runs[2].goOrder
  /\ Len(runs[1].jsOrder) = 2 /\ Len(runs[1].goOrder) = 2
  /\ runs[1].res = "Ok"
  /\ Cardinality(runs[1].web) = 2 /\ Cardinality(runs[1].backend) = 2
  /\ SameContent

\* the require specs of a go.mod, in the order of the file
RECURSIVE RequireSpecs(_)
RequireSpecs(go_mod) ==
  IF go_mod = << >> THEN << >>
  ELSE (IF go_mod[1].directive = "Require" THEN go_mod[1].specs ELSE << >>)
         \o RequireSpecs(Tail(go_mod))

Declares(go_mod, n) == \E k \in 1..Len(RequireSpecs(go_mod)) : RequireSpecs(go_mod)[k][1] = n

\* the version the last require spec of module n gives in a go.mod
LastVersionIn(go_mod, n) ==
  LET specs == RequireSpecs(go_mod)
      last  == Max({ k \in 1..Len(specs) : specs[k][1] = n })
  IN  specs[last][2]

(* C9: the mapping holds one entry per module name, and its version is the  *)
(* one of the file processed last among those that declare the module: of   *)
(* two go.mod files declaring a module, the second one's version is held.   *)
C9_LastFileWins ==
  /\ DOMAIN goDeps = { n \in GoModules : \E i \in 1..Len(goFiles) : Declares(goFiles[i], n) }
  /\ \A n \in DOMAIN goDeps :
       LET last == Max({ i \in 1..Len(goFiles) : Declares(goFiles[i], n) })
       IN  /\ goDeps[n].name = n
           /\ goDeps[n].version = LastVersionIn(goFiles[last], n)

C9_Witness ==
  /\ Len(goFiles) = 2
  /\ Declares(goFiles[1], ModuleOne) /\ Declares(goFiles[2], ModuleOne)
  /\ LastVersionIn(goFiles[1], ModuleOne) /= LastVersionIn(goFiles[2], ModuleOne)
  /\ goDeps[ModuleOne].version = LastVersionIn(goFiles[2], ModuleOne)
  /\ goResult = "Ok"

\* the license-link cell of a row
LicenseCell(sheet, row) ==
  IF << row, 4 >> \in DOMAIN sheet THEN Some(sheet[<< row, 4 >>]) ELSE None

LicenseRan == jsLast.some /\ jsLast.reached = "license"

(* C10, as claimed: the probes stop at the first that returns success, the  *)
(* cell is the url of that filename, and when no probe succeeds the cell is *)
(* left empty and the operation still returns success.                      *)
C10_NoHitIsSuccess ==
  LicenseRan =>
    LET p == jsLast.probed
        k == Len(p)
    IN  /\ \A i \in 1..(k - 1) : p[i] /= "ok"
        /\ (k > 0 /\ p[k] = "ok") =>
              LicenseCell(sheetWeb, jsLast.row)
                = Some(LicenseUrl(jsLast.repo, LICENSE_FILES[k]))
        /\ (\A i \in 1..k : p[i] /= "ok") =>
              (LicenseCell(sheetWeb, jsLast.row) = None /\ jsLast.res = "Ok")

(* C10, amended: the filenames are probed in list order; the probes stop at *)
(* the first that returns success, whose url is the one cell written, or at *)
(* the first transport error, which leaves the cell empty and is returned   *)
(* as an error; when every probe answers without success the cell is left   *)
(* empty and the operation returns success.                                 *)
C10_FirstHitOrError ==
  LicenseRan =>
    LET p == jsLast.probed
        k == Len(p)
    IN  /\ k <= Len(LICENSE_FILES)
        /\ \A i \in 1..(k - 1) : p[i] = "miss"
        /\ (k > 0 /\ p[k] = "ok") =>
              /\ LicenseCell(sheetWeb, jsLast.row)
                   = Some(LicenseUrl(jsLast.repo, LICENSE_FILES[k]))
              /\ jsLast.res = "Ok"
        /\ (k > 0 /\ p[k] = "transport") =>
              (LicenseCell(sheetWeb, jsLast.row) = None /\ jsLast.res = "Err")
        /\ (\A i \in 1..k : p[i] = "miss") =>
              /\ k = Len(LICENSE_FILES)
              /\ LicenseCell(sheetWeb, jsLast.row) = None
              /\ jsLast.res = "Ok"

C10_Witness ==
  /\ LicenseRan
  /\ jsLast.probed = << "miss", "ok" >>
  /\ LicenseCell(sheetWeb, jsLast.row)
       = Some(LicenseUrl(jsLast.repo, LICENSE_FILES[2]))

==========================================================================
